---- MODULE Spec2Model ----
(***************************************************************************)
(* State-machine model of data/scrape/google_news_scraper.py: the          *)
(* fetch-resolve-extract-dedup pipeline (run, scrape_label), the append    *)
(* log raw.jsonl (append_raw, load_seen_ids) and the derived table         *)
(* processed.csv (rebuild_csv).                                            *)
(*                                                                         *)
(* Strings are sequences of one-character strings, URLs are sequences of   *)
(* URL components, and the log file is a sequence of tokens: "{", one      *)
(* token per "key": value pair, "}" and the newline. A character that      *)
(* UTF-8 encodes in several bytes is written by its code point, "U+2019".  *)
(***************************************************************************)
EXTENDS Integers, Sequences, FiniteSets, TLC

---------------------------------------------------------------------------
(* Settings *)

\* Number of times the process is started in one behaviour.
MaxRuns == 2

\* Per-label quota of one run. The source sets 450; the model scales it.
TARGET_PER_LABEL == 2

\* Least length of a persisted text. The source sets 220; the model scales it.
MIN_TEXT_LEN == 8

\* Requests (of a feed, of a page, of an article) that fail in one behaviour.
MaxFaults == 1

\* Labels in catalog order (the key order of the LABEL_QUERIES dict).
LABELS == <<"business", "tech">>

\* The catalog, scaled to two labels with two and one queries. A query is
\* a sequence of words and blanks.
LABEL_QUERIES ==
    [business |-> << <<"economy", " ", "OR", " ", "inflation">>,
                     <<"interest", " ", "rates">> >>,
     tech     |-> << <<"artificial", " ", "intelligence">> >>]

google_news_rss_url(q) ==
    <<"https", "://", "news.google.com", "/rss/search?q=">>
        \o [i \in 1..Len(q) |-> IF q[i] = " " THEN "+" ELSE q[i]]
        \o <<"&hl=en-US&gl=US&ceid=US:en">>

---------------------------------------------------------------------------
(* Helpers *)

Rep(c, n) == [i \in 1..n |-> c]

IsSpace(c) == c \in {" ", "\t", "\n"}

\* re.sub(r"\s+", " ", s).strip(): a whitespace character survives, as one
\* blank, only if it directly follows a non-whitespace character, and a
\* blank left at the very end is stripped.
clean_text(s) ==
    LET keep(i) == ~IsSpace(s[i]) \/ (i > 1 /\ ~IsSpace(s[i - 1]))
        idx == SelectSeq([i \in 1..Len(s) |-> i], keep)
        r == [k \in 1..Len(idx) |-> IF IsSpace(s[idx[k]]) THEN " " ELSE s[idx[k]]]
    IN  IF r # <<>> /\ r[Len(r)] = " " THEN SubSeq(r, 1, Len(r) - 1) ELSE r

\* hashlib.sha1 of the URL: a deterministic function of the whole URL,
\* taken to be collision-free.
stable_id(url) == <<"sha1">> \o url

\* urlparse(url).netloc: the component between "://" and the path.
netloc(url) == IF Len(url) >= 3 /\ url[2] = "://" THEN <<url[3]>> ELSE <<>>

---------------------------------------------------------------------------
(* The log file raw.jsonl *)

COLS == <<"id", "label", "source", "url", "published_at", "title",
          "summary", "text", "scraped_at">>

Tok(k, v) == <<<<k>>, v>>
NL == Tok("\n", <<>>)

\* The characters whose UTF-8 encoding has more than one byte; json.dumps
\* with ensure_ascii=False writes them as they are.
IsWide(c) == c \in {"U+2019"}
HasWide(v) == \E i \in 1..Len(v) : IsWide(v[i])

\* The first bytes of such a character without its last ones.
Undecodable == Tok("\\xe2", <<>>)

\* Reading the file as text (open(RAW_PATH, "r", encoding="utf-8"), errors
\* strict) raises UnicodeDecodeError on bytes that are not UTF-8.
decode_raises(f) == \E i \in 1..Len(f) : f[i] = Undecodable

\* json.dumps(row): the object's pairs in insertion order between braces.
dumps(row) ==
    <<Tok("{", <<>>)>> \o [i \in 1..Len(COLS) |-> Tok(COLS[i], row[COLS[i]])]
        \o <<Tok("}", <<>>)>>

\* The lines of the file: the runs of tokens that the newlines end, and a
\* last run that has no newline yet.
Lines(f) ==
    LET n == Len(f)
        ends == SelectSeq([i \in 1..n |-> i], LAMBDA i : f[i][1] = <<"\n">>)
        m == Len(ends)
        start(k) == IF k = 1 THEN 1 ELSE ends[k - 1] + 1
        whole == [k \in 1..m |-> SubSeq(f, start(k), ends[k] - 1)]
    IN  IF start(m + 1) > n THEN whole
        ELSE Append(whole, SubSeq(f, start(m + 1), n))

\* json.loads(line) succeeds on a line that is one complete object.
IsObject(line) ==
    /\ Len(line) >= 2
    /\ line[1][1] = <<"{">>
    /\ line[Len(line)][1] = <<"}">>
    /\ \A i \in 2..(Len(line) - 1) : line[i][1] \notin {<<"{">>, <<"}">>}

Keys(line) == {line[i][1][1] : i \in 2..(Len(line) - 1)}

\* The value of the last pair of the object with key k.
Get(line, k) ==
    LET last == CHOOSE i \in 2..(Len(line) - 1) :
                    /\ line[i][1] = <<k>>
                    /\ \A j \in (i + 1)..(Len(line) - 1) : line[j][1] # <<k>>
    IN  line[last][2]

\* json.loads(line)["id"] raises on a bad line or on a missing key.
HasId(line) == IsObject(line) /\ "id" \in Keys(line)

\* A loader that misses the last line of the file.
load_all_but_last(f) ==
    LET ls == Lines(f)
    IN  {Get(ls[i], "id") : i \in {j \in 1..(Len(ls) - 1) : HasId(ls[j])}}

load_seen_ids(f) ==
    LET ls == Lines(f)
    IN  {Get(ls[i], "id") : i \in {j \in 1..Len(ls) : HasId(ls[j])}}

---------------------------------------------------------------------------
(* The derived table processed.csv *)

\* The file is absent (<<>>) or holds the header row and the data rows.
NoCsv == <<>>
Header == [i \in 1..Len(COLS) |-> <<COLS[i]>>]

\* pd.read_json(RAW_PATH, lines=True) drops the blank lines and parses the
\* rest as one JSON array: one malformed line makes the whole read raise.
NonBlank(f) == SelectSeq(Lines(f), LAMBDA l : l # <<>>)

read_json_raises(f) ==
    \/ decode_raises(f)
    \/ LET ls == NonBlank(f) IN \E i \in 1..Len(ls) : ~IsObject(ls[i])

Cell(line, k) == IF k \in Keys(line) THEN Get(line, k) ELSE <<"NaN">>

\* df[cols] raises KeyError for a column that no row has.
MissingColumn(f) ==
    LET ls == NonBlank(f)
    IN  \E i \in 1..Len(COLS) : \A j \in 1..Len(ls) : COLS[i] \notin Keys(ls[j])

\* df[cols].drop_duplicates("id"): the rows in file order, a row dropped
\* when an earlier row has its id.
drop_duplicates(rows) ==
    LET first(i) == \A j \in 1..(i - 1) : rows[j][1] # rows[i][1]
        idx == SelectSeq([i \in 1..Len(rows) |-> i], first)
    IN  [k \in 1..Len(idx) |-> rows[idx[k]]]

Frame(f) ==
    LET ls == NonBlank(f)
    IN  [j \in 1..Len(ls) |-> [i \in 1..Len(COLS) |-> Cell(ls[j], COLS[i])]]

\* What rebuild_csv does: "keep" (an early return), "raise" (the exception
\* leaves run) or "write" (to_csv replaces the file).
rebuild_outcome(f) ==
    IF f = <<>> THEN "keep"
    ELSE IF read_json_raises(f) THEN "raise"
    ELSE IF NonBlank(f) = <<>> THEN "keep"
    ELSE IF MissingColumn(f) THEN "raise"
    ELSE "write"

rebuild_csv(f, old) ==
    IF rebuild_outcome(f) = "write"
    THEN <<Header>> \o drop_duplicates(Frame(f))
    ELSE old

---------------------------------------------------------------------------
(* The web: feed entries, aggregator pages and publisher pages *)

Str(w) == <<w>>

L1 == <<"https", "://", "news.google.com", "/articles/abc">>
L2 == <<"https", "://", "news.google.com", "/articles/def">>
L3 == <<"https", "://", "news.google.com", "/rss/articles/ghi">>
U1 == <<"https", "://", "real-publisher.com", "/story/1">>
U2 == <<"http", "://", "other-publisher.org", "/2024/report">>
\* A publisher's URL that names the aggregator's host in its query.
U3 == <<"https", "://", "third-publisher.net", "/story?via=", "news.google.com">>

\* A feed entry as feedparser gives it. An absent attribute is <<>>.
Entry(link, title, summary, description, published) ==
    [link |-> link, title |-> title, summary |-> summary,
     description |-> description, published |-> published]

\* No link: skipped.
E0 == Entry(<<>>, Str("Y"), <<>>, <<>>, <<>>)
\* Title "X" and no summary: the fallback text is "X.".
E1 == Entry(L1, Str("X"), <<>>, <<>>, <<" ">> \o Str("Mon") \o <<" ", " ">> \o Str("1"))
\* A title (two characters and a blank once cleaned, one of them a right
\* single quotation mark) and a summary (MIN_TEXT_LEN - 5 characters once
\* cleaned) that make a fallback text of exactly MIN_TEXT_LEN.
E2 == Entry(L2, <<" ", "\t", "t", " ", "\n", "U+2019">>,
            Rep("s", MIN_TEXT_LEN - 7) \o <<"\n", "r", " ">>, <<>>, <<>>)
\* No summary but a description; the fallback text has MIN_TEXT_LEN - 1
\* characters.
E3 == Entry(L3, Rep("v", 2), <<>>, Rep("w", MIN_TEXT_LEN - 5), Str("Tue"))

\* The feeds the source can hold for a query: entries in feed order.
FEEDS == {<<E0, E1>>, <<E1, E2, E3>>}

\* The response to the resolver's GET: the request fails (exception,
\* timeout, non-2xx), or a page with its canonical href (<<>> when there is
\* none) and the hrefs of its anchors in document order.
Failed == [ok |-> FALSE, canon |-> <<>>, anchors |-> <<>>]
Page(canon, anchors) == [ok |-> TRUE, canon |-> canon, anchors |-> anchors]

PageOf(link) ==
    IF link = L1 THEN Page(U1, <<U2>>)
    ELSE IF link = L2
    THEN Page(<<>>, << <<"/", "about">>,
                       <<"https", "://", "news.google.com", "/home">>, U2 >>)
    ELSE Page(<<>>, << <<"https", "://", "news.google.com", "/topics">>, U3 >>)

\* What trafilatura gets out of a URL: <<>> when the download or the
\* extraction fails, else the text as extracted (not yet cleaned).
DocOf(url) ==
    IF url = U1 THEN Rep("a", MIN_TEXT_LEN) \o <<"\n", "\n">> \o Rep("b", 2)
    ELSE IF url = U2 THEN Rep("c", MIN_TEXT_LEN - 3) \o <<" ", " ", "d">>
    ELSE IF url = L3 THEN Rep("e", MIN_TEXT_LEN)
    ELSE <<>>

---------------------------------------------------------------------------
(* Link resolver and text extractor *)

StartsWithHttp(href) == href # <<>> /\ href[1] \in {"http", "https", "httpx"}
Mentions(href, host) == \E i \in 1..Len(href) : href[i] = host

\* The test of an anchor's href (line 127).
Qualifies(href) == StartsWithHttp(href) /\ ~Mentions(href, "news.google.com")

\* A resolver that has nothing to return when the request fails.
resolve_or_nothing(url, resp) ==
    IF ~resp.ok THEN <<>>
    ELSE IF resp.canon # <<>> THEN resp.canon
    ELSE LET good == SelectSeq(resp.anchors, Qualifies)
         IN  IF good # <<>> THEN good[1] ELSE url

resolve_google_news_to_original(url, resp) ==
    IF ~resp.ok THEN url
    ELSE IF resp.canon # <<>> THEN resp.canon
    ELSE LET good == SelectSeq(resp.anchors, Qualifies)
         IN  IF good # <<>> THEN good[1] ELSE url

extract_full_text(doc) == clean_text(doc)

---------------------------------------------------------------------------
(* State *)

VARIABLES
    log,          \* raw.jsonl: the tokens written so far (<<>>: no file)
    csv,          \* processed.csv
    feedOf,       \* the feed source: feed URL -> feed, for the URLs fetched
    pc,           \* where the process is; "idle" when no process runs
    runs,         \* processes started so far
    seen,         \* run: the dedup ledger
    total_added,  \* run
    li,           \* run: index of the label being collected
    added,        \* scrape_label
    qi,           \* scrape_label: index of the query
    entries,      \* scrape_label: the entries of the feed of that query
    ei,           \* scrape_label: index of the entry
    original,     \* scrape_label: the resolved URL
    title, summary, published, text,
    extracted,    \* what extract_full_text returned for this entry
    writes,       \* append_raw calls made for this label
    sleeps,       \* time.sleep calls made for this label
    last,         \* what became of the entry before this one
    faults,       \* requests that failed so far
    dirty,        \* the web changed, or a request failed, since this run began
    sameAsPrev,   \* this run began on the web its predecessor completed on
    hitQuota,     \* a label of this run returned on its quota
    prevHitQuota, \* ... of the preceding run
    exit          \* how the last process ended: "none", "ok", "error" (of
                  \* rebuild_csv), "load_error", "append_error", "killed"

durable == <<log, csv>>
entryVars == <<original, title, summary, published, text, extracted>>
loopVars == <<li, added, qi, entries, ei>>
counters == <<writes, sleeps>>
\* The values of last: no entry yet, or the entry had no link, had an id
\* of the ledger, had too short a text, or was appended.
Outcomes == {"none", "no_link", "seen", "short", "added"}
history == <<faults, dirty, sameAsPrev, hitQuota, prevHitQuota>>
vars == <<log, csv, feedOf, pc, runs, seen, total_added, li, added, qi, entries,
          ei, original, title, summary, published, text, extracted, writes,
          sleeps, last, faults, dirty, sameAsPrev, hitQuota, prevHitQuota, exit>>

NoFeeds == <<>>

Label == LABELS[li]
Queries == LABEL_QUERIES[Label]
Link == entries[ei].link

\* The memory of a process that is not running.
NoProcess ==
    /\ seen' = {}
    /\ total_added' = 0
    /\ li' = 0 /\ added' = 0 /\ qi' = 0 /\ entries' = <<>> /\ ei' = 0
    /\ original' = <<>> /\ title' = <<>> /\ summary' = <<>>
    /\ published' = <<>> /\ text' = <<>> /\ extracted' = <<>>
    /\ writes' = 0 /\ sleeps' = 0 /\ last' = "none"
    /\ sameAsPrev' = FALSE /\ prevHitQuota' = FALSE

\* What is kept of a run that the next run is not compared with, because it
\* did not complete or the web was not the same throughout: nothing, and
\* the feed source may answer the next run with any feeds.
NoRecord == dirty' = TRUE /\ hitQuota' = FALSE /\ feedOf' = NoFeeds

\* continue: the loop takes the next entry.
NextEntry(outcome) ==
    /\ ei' = ei + 1
    /\ last' = outcome
    /\ original' = <<>> /\ title' = <<>> /\ summary' = <<>>
    /\ published' = <<>> /\ text' = <<>> /\ extracted' = <<>>
    /\ pc' = "entry"

\* return added: scrape_label returns to run.
Return ==
    /\ pc' = "label_done"
    /\ UNCHANGED <<ei, entryVars, last>>

Init ==
    /\ log = <<>> /\ csv = NoCsv /\ feedOf = NoFeeds
    /\ pc = "idle" /\ runs = 0
    /\ seen = {} /\ total_added = 0
    /\ li = 0 /\ added = 0 /\ qi = 0 /\ entries = <<>> /\ ei = 0
    /\ original = <<>> /\ title = <<>> /\ summary = <<>>
    /\ published = <<>> /\ text = <<>> /\ extracted = <<>>
    /\ writes = 0 /\ sleeps = 0 /\ last = "none"
    /\ faults = 0 /\ dirty = FALSE /\ sameAsPrev = FALSE
    /\ hitQuota = FALSE /\ prevHitQuota = FALSE
    /\ exit = "none"

---------------------------------------------------------------------------
(* run *)

\* The process starts: seen = load_seen_ids(), total_added = 0. The
\* exception of a file that does not decode is caught nowhere and ends the
\* process.
RunStart ==
    /\ pc = "idle" /\ runs < MaxRuns
    /\ runs' = runs + 1
    /\ IF decode_raises(log)
       THEN /\ exit' = "load_error"
            /\ NoProcess /\ NoRecord
            /\ UNCHANGED <<durable, pc, faults>>
       ELSE /\ seen' = load_seen_ids(log)
            /\ total_added' = 0
            /\ li' = 1
            /\ pc' = "label"
            /\ sameAsPrev' = (exit = "ok" /\ ~dirty)
            /\ prevHitQuota' = hitQuota
            /\ dirty' = FALSE /\ hitQuota' = FALSE
            /\ UNCHANGED <<durable, feedOf, added, qi, entries, ei, entryVars,
                           counters, last, faults, exit>>

\* A scrape_label that is given a ledger of its own.
StartLabelOwnLedger ==
    /\ pc = "label" /\ li <= Len(LABELS)
    /\ seen' = {}
    /\ added' = 0 /\ qi' = 1
    /\ writes' = 0 /\ sleeps' = 0 /\ last' = "none"
    /\ pc' = "query"
    /\ UNCHANGED <<durable, feedOf, runs, total_added, li, entries, ei,
                   entryVars, history, exit>>

\* for label, queries in LABEL_QUERIES.items(): scrape_label is entered.
StartLabel ==
    /\ pc = "label" /\ li <= Len(LABELS)
    /\ added' = 0 /\ qi' = 1
    /\ writes' = 0 /\ sleeps' = 0 /\ last' = "none"
    /\ pc' = "query"
    /\ UNCHANGED <<durable, feedOf, runs, seen, total_added, li, entries, ei,
                   entryVars, history, exit>>

\* total_added += added, after scrape_label has returned.
LabelDone ==
    /\ pc = "label_done"
    /\ total_added' = total_added + added
    /\ li' = li + 1
    /\ pc' = "label"
    /\ UNCHANGED <<durable, feedOf, runs, seen, added, qi, entries, ei,
                   entryVars, counters, last, history, exit>>

\* rebuild_csv() after the last label; an exception of it ends the process.
Rebuild ==
    /\ pc = "label" /\ li > Len(LABELS)
    /\ IF rebuild_outcome(log) = "raise"
       THEN /\ pc' = "idle" /\ exit' = "error"
            /\ NoProcess /\ NoRecord
            /\ UNCHANGED <<durable, runs, faults>>
       ELSE /\ csv' = rebuild_csv(log, csv)
            /\ pc' = "summary"
            /\ UNCHANGED <<log, feedOf, runs, seen, total_added, loopVars,
                           entryVars, counters, last, history, exit>>

\* The summary is printed and the process ends.
Summary ==
    /\ pc = "summary"
    /\ pc' = "idle" /\ exit' = "ok"
    /\ NoProcess
    /\ IF dirty THEN NoRecord ELSE UNCHANGED <<dirty, hitQuota, feedOf>>
    /\ UNCHANGED <<durable, runs, faults>>

---------------------------------------------------------------------------
(* scrape_label *)

\* feedparser.parse(google_news_rss_url(q)): the feed source answers a URL
\* with the same feed until it changes; a fetch that fails gives no entry.
FetchFeed ==
    /\ pc = "query" /\ qi <= Len(Queries)
    /\ LET url == google_news_rss_url(Queries[qi])
       IN  \/ \E feed \in (IF url \in DOMAIN feedOf THEN {feedOf[url]} ELSE FEEDS) :
                  /\ entries' = feed
                  /\ feedOf' = (url :> feed) @@ feedOf
                  /\ UNCHANGED <<faults, dirty>>
           \/ /\ faults < MaxFaults
              /\ entries' = <<>>
              /\ faults' = faults + 1
              /\ dirty' = TRUE
              /\ UNCHANGED feedOf
    /\ ei' = 1
    /\ pc' = "entry"
    /\ UNCHANGED <<durable, runs, seen, total_added, li, added, qi, entryVars,
                   counters, last, sameAsPrev, hitQuota, prevHitQuota, exit>>

\* The queries are used up: return added (line 201).
QueriesDone ==
    /\ pc = "query" /\ qi > Len(Queries)
    /\ pc' = "label_done"
    /\ UNCHANGED <<durable, feedOf, runs, seen, total_added, loopVars, entryVars,
                   counters, last, history, exit>>

\* A loop over the queries that stays at its query.
NextQueryAgain ==
    /\ pc = "entry" /\ ei > Len(entries)
    /\ qi' = qi /\ entries' = <<>> /\ ei' = 0
    /\ pc' = "query"
    /\ UNCHANGED <<durable, feedOf, runs, seen, total_added, li, added, entryVars,
                   counters, last, history, exit>>

\* The entries of the feed are used up: the next query.
NextQuery ==
    /\ pc = "entry" /\ ei > Len(entries)
    /\ qi' = qi + 1 /\ entries' = <<>> /\ ei' = 0
    /\ pc' = "query"
    /\ UNCHANGED <<durable, feedOf, runs, seen, total_added, li, added, entryVars,
                   counters, last, history, exit>>

\* A quota check that is off by one.
QuotaExceeded(n) == n > TARGET_PER_LABEL

QuotaReached(n) == n >= TARGET_PER_LABEL

\* The head of the loop body (lines 154-162): the quota check, the check of
\* the link, and the resolver's request, which may fail.
EntryHead ==
    /\ pc = "entry" /\ ei <= Len(entries)
    /\ IF QuotaReached(added)
       THEN /\ Return
            /\ hitQuota' = TRUE
            /\ UNCHANGED <<faults, dirty>>
       ELSE IF Link = <<>>
       THEN /\ NextEntry("no_link")
            /\ UNCHANGED <<faults, dirty, hitQuota>>
       ELSE /\ \E resp \in {PageOf(Link)}
                           \cup (IF faults < MaxFaults THEN {Failed} ELSE {}) :
                   /\ original' = resolve_google_news_to_original(Link, resp)
                   /\ faults' = IF resp = Failed THEN faults + 1 ELSE faults
                   /\ dirty' = (dirty \/ resp = Failed)
            /\ pc' = "dedup"
            /\ UNCHANGED <<ei, title, summary, published, text, extracted, last,
                           hitQuota>>
    /\ UNCHANGED <<durable, feedOf, runs, seen, total_added, li, added, qi,
                   entries, counters, sameAsPrev, prevHitQuota, exit>>

\* if _id in seen: continue
SkipSeen ==
    /\ pc = "dedup"
    /\ stable_id(original) \in seen
    /\ NextEntry("seen")
    /\ UNCHANGED <<durable, feedOf, runs, seen, total_added, li, added, qi,
                   entries, counters, history, exit>>

Or(a, b) == IF a # <<>> THEN a ELSE b

\* A loop body that goes on without consulting the ledger.
ReadEntryUnchecked ==
    /\ pc = "dedup"
    /\ title' = clean_text(entries[ei].title)
    /\ summary' = clean_text(Or(entries[ei].summary, entries[ei].description))
    /\ published' = clean_text(entries[ei].published)
    /\ pc' = "extract"
    /\ UNCHANGED <<durable, feedOf, runs, seen, total_added, loopVars, original,
                   text, extracted, counters, last, history, exit>>

\* title, summary and published of the entry, cleaned (lines 168-172).
ReadEntry ==
    /\ pc = "dedup"
    /\ stable_id(original) \notin seen
    /\ title' = clean_text(entries[ei].title)
    /\ summary' = clean_text(Or(entries[ei].summary, entries[ei].description))
    /\ published' = clean_text(entries[ei].published)
    /\ pc' = "extract"
    /\ UNCHANGED <<durable, feedOf, runs, seen, total_added, loopVars, original,
                   text, extracted, counters, last, history, exit>>

\* A length check that rejects the empty text only.
IsEmpty(t) == Len(t) = 0

TooShort(t) == Len(t) < MIN_TEXT_LEN

\* text = clean_text(f"{title}. {summary}") when the text is too short.
Fallback(t, ti, su) ==
    IF TooShort(t) THEN clean_text(ti \o <<".", " ">> \o su) ELSE t

\* text = extract_full_text(original); the download may fail.
Extract ==
    /\ pc = "extract"
    /\ \E doc \in {DocOf(original)} \cup (IF faults < MaxFaults THEN {<<>>} ELSE {}) :
           LET failed == doc = <<>> /\ DocOf(original) # <<>>
           IN  /\ extracted' = extract_full_text(doc)
               /\ text' = extract_full_text(doc)
               /\ faults' = IF failed THEN faults + 1 ELSE faults
               /\ dirty' = (dirty \/ failed)
    /\ pc' = "check"
    /\ UNCHANGED <<durable, feedOf, runs, seen, total_added, loopVars, original,
                   title, summary, published, counters, last, sameAsPrev,
                   hitQuota, prevHitQuota, exit>>

\* A check that counts a discarded entry toward the quota.
CheckCounting ==
    /\ pc = "check"
    /\ IF TooShort(Fallback(text, title, summary))
       THEN NextEntry("short") /\ added' = added + 1
       ELSE /\ text' = Fallback(text, title, summary)
            /\ pc' = "append"
            /\ UNCHANGED <<ei, original, title, summary, published, extracted,
                           last, added>>
    /\ UNCHANGED <<durable, feedOf, runs, seen, total_added, li, qi,
                   entries, counters, history, exit>>

\* The fallback text, and continue when the text is still too short (lines
\* 176-180).
Check ==
    /\ pc = "check"
    /\ IF TooShort(Fallback(text, title, summary))
       THEN NextEntry("short")
       ELSE /\ text' = Fallback(text, title, summary)
            /\ pc' = "append"
            /\ UNCHANGED <<ei, original, title, summary, published, extracted, last>>
    /\ UNCHANGED <<durable, feedOf, runs, seen, total_added, li, added, qi,
                   entries, counters, history, exit>>

\* datetime.now(timezone.utc).isoformat(), to the precision of the run.
Now == <<"run", ToString(runs)>>

\* A row that keeps the aggregator's link as its URL.
RowOfLink ==
    [id |-> stable_id(original), label |-> <<Label>>, source |-> netloc(Link),
     url |-> Link, published_at |-> published, title |-> title,
     summary |-> summary, text |-> text, scraped_at |-> Now]

Row ==
    [id |-> stable_id(original), label |-> <<Label>>, source |-> netloc(original),
     url |-> original, published_at |-> published, title |-> title,
     summary |-> summary, text |-> text, scraped_at |-> Now]

\* What append_raw(row) writes.
Written(row) == Append(dumps(row), NL)

\* An append that puts the record in front of the file.
PrependRaw ==
    /\ pc = "append"
    /\ log' = Written(Row) \o log
    /\ writes' = writes + 1
    /\ pc' = "ledger"
    /\ UNCHANGED <<csv, feedOf, runs, seen, total_added, loopVars, entryVars,
                   sleeps, last, history, exit>>

AppendRaw ==
    /\ pc = "append"
    /\ log' = log \o Written(Row)
    /\ writes' = writes + 1
    /\ pc' = "ledger"
    /\ UNCHANGED <<csv, feedOf, runs, seen, total_added, loopVars, entryVars,
                   sleeps, last, history, exit>>

\* append_raw raises (OSError of open or write: the disk is full, the file
\* is not writable) and nothing reaches the file. No caller catches the
\* exception: it leaves scrape_label and run, and the process ends.
AppendRaises ==
    /\ pc = "append" /\ faults < MaxFaults
    /\ faults' = faults + 1
    /\ pc' = "idle" /\ exit' = "append_error"
    /\ NoProcess /\ NoRecord
    /\ UNCHANGED <<durable, runs>>

\* A ledger update that forgets the id.
LedgerForgets ==
    /\ pc = "ledger"
    /\ added' = added + 1
    /\ pc' = "sleep"
    /\ UNCHANGED <<durable, feedOf, runs, seen, total_added, li, qi, entries, ei,
                   entryVars, counters, last, history, exit>>

\* seen.add(_id); added += 1
Ledger ==
    /\ pc = "ledger"
    /\ seen' = seen \cup {stable_id(original)}
    /\ added' = added + 1
    /\ pc' = "sleep"
    /\ UNCHANGED <<durable, feedOf, runs, total_added, li, qi, entries, ei,
                   entryVars, counters, last, history, exit>>

\* A loop body without the quota check after the entry.
SleepNoCheck ==
    /\ pc = "sleep"
    /\ sleeps' = sleeps + 1
    /\ NextEntry("added")
    /\ UNCHANGED <<durable, feedOf, runs, seen, total_added, li, added, qi,
                   entries, writes, history, exit>>

\* A loop body that pauses only after the quota check.
SleepAfterCheck ==
    /\ pc = "sleep"
    /\ IF QuotaReached(added)
       THEN Return /\ hitQuota' = TRUE /\ UNCHANGED sleeps
       ELSE NextEntry("added") /\ sleeps' = sleeps + 1 /\ UNCHANGED hitQuota
    /\ UNCHANGED <<durable, feedOf, runs, seen, total_added, li, added, qi,
                   entries, writes, faults, dirty, sameAsPrev, prevHitQuota, exit>>

\* time.sleep(SLEEP_SEC), then the quota check after the entry (lines
\* 196-199).
Sleep ==
    /\ pc = "sleep"
    /\ sleeps' = sleeps + 1
    /\ IF QuotaReached(added)
       THEN Return /\ hitQuota' = TRUE
       ELSE NextEntry("added") /\ UNCHANGED hitQuota
    /\ UNCHANGED <<durable, feedOf, runs, seen, total_added, li, added, qi,
                   entries, writes, faults, dirty, sameAsPrev, prevHitQuota, exit>>

---------------------------------------------------------------------------
(* The environment *)

\* The process is terminated from outside; its memory is lost.
Kill ==
    /\ pc # "idle"
    /\ pc' = "idle" /\ exit' = "killed"
    /\ NoProcess /\ NoRecord
    /\ UNCHANGED <<durable, runs, faults>>

\* How much of a record of n tokens can have reached the file when the
\* process is terminated while it writes: the opening brace alone, or all
\* but the newline.
TornAt(n) == {1, n - 1}

\* What of the written tokens w can be in the file then: a prefix of whole
\* tokens, or the tokens before the first pair with a character of several
\* bytes and the bytes of that pair up to the middle of the character.
TornWrites(w) ==
    {SubSeq(w, 1, n) : n \in TornAt(Len(w))}
        \cup {Append(SubSeq(w, 1, k - 1), Undecodable) :
                 k \in {i \in 1..Len(w) :
                           /\ HasWide(w[i][2])
                           /\ \A j \in 1..(i - 1) : ~HasWide(w[j][2])}}

KillInWrite ==
    /\ pc = "append"
    /\ \E torn \in TornWrites(Written(Row)) : log' = log \o torn
    /\ pc' = "idle" /\ exit' = "killed"
    /\ NoProcess /\ NoRecord
    /\ UNCHANGED <<csv, runs, faults>>

\* Between two runs the feed source changes.
WebChanges ==
    /\ pc = "idle" /\ feedOf # NoFeeds
    /\ NoRecord
    /\ UNCHANGED <<durable, pc, runs, seen, total_added, loopVars, entryVars,
                   counters, last, faults, sameAsPrev, prevHitQuota, exit>>

Next ==
    \/ RunStart \/ StartLabel \/ LabelDone \/ Rebuild \/ Summary
    \/ FetchFeed \/ QueriesDone \/ NextQuery \/ EntryHead
    \/ SkipSeen \/ ReadEntry \/ Extract \/ Check
    \/ AppendRaw \/ AppendRaises \/ Ledger \/ Sleep
    \/ Kill \/ KillInWrite \/ WebChanges

Spec == Init /\ [][Next]_vars

\* The statements of a running process: the interpreter executes the next
\* one as long as the process is not terminated (every request of the
\* resolver and of the extractor returns or times out).
Step ==
    \/ StartLabel \/ LabelDone \/ Rebuild \/ Summary
    \/ FetchFeed \/ QueriesDone \/ NextQuery \/ EntryHead
    \/ SkipSeen \/ ReadEntry \/ Extract \/ Check
    \/ AppendRaw \/ Ledger \/ Sleep

\* The last process is about to start; those before it were terminated
\* before they wrote anything.
InitLastRun ==
    /\ log = <<>> /\ csv = NoCsv /\ feedOf = NoFeeds
    /\ pc = "idle" /\ runs = MaxRuns - 1
    /\ seen = {} /\ total_added = 0
    /\ li = 0 /\ added = 0 /\ qi = 0 /\ entries = <<>> /\ ei = 0
    /\ original = <<>> /\ title = <<>> /\ summary = <<>>
    /\ published = <<>> /\ text = <<>> /\ extracted = <<>>
    /\ writes = 0 /\ sleeps = 0 /\ last = "none"
    /\ faults = 0 /\ dirty = TRUE /\ sameAsPrev = FALSE
    /\ hitQuota = FALSE /\ prevHitQuota = FALSE
    /\ exit = "killed"

LiveSpec == InitLastRun /\ [][Next]_vars /\ WF_vars(Step)

---------------------------------------------------------------------------
(* Properties *)

\* The records of the file: its lines that parse to an object with an id.
Records(f) == SelectSeq(Lines(f), HasId)
IdsOf(f) == LET rs == Records(f) IN [i \in 1..Len(rs) |-> Get(rs[i], "id")]

\* C1: no two parsable records of the log have the same id, and append_raw
\* is never reached with an id that the ledger holds.
C1_UniqueIds ==
    /\ LET ids == IdsOf(log)
       IN  \A i, j \in 1..Len(ids) : i # j => ids[i] # ids[j]
    /\ pc = "append" => stable_id(original) \notin seen

\* An entry of the second label resolves to an id appended earlier in the
\* same run.
C1_Witness ==
    /\ pc = "dedup" /\ runs = 1 /\ li = 2
    /\ stable_id(original) \in seen

\* C2, as stated: a run that follows a completed run on an unchanged web
\* appends nothing and counts nothing, and the log holds no id twice.
C2_SecondRunAddsNothing ==
    /\ LET ids == IdsOf(log)
       IN  \A i, j \in 1..Len(ids) : i < j => ids[i] # ids[j]
    /\ (sameAsPrev /\ ~dirty) => (writes = 0 /\ added = 0 /\ total_added = 0)

\* C2, amended: the same, for a run whose predecessor returned from no
\* label on its quota.
C2_SecondRunAddsNothingBelowQuota ==
    /\ LET ids == IdsOf(log)
       IN  \A i, j \in 1..Len(ids) : j < i => ids[i] # ids[j]
    /\ (sameAsPrev /\ ~dirty /\ ~prevHitQuota)
           => (writes = 0 /\ added = 0 /\ total_added = 0)

\* A second run on an unchanged web ends, having found records in the log
\* and added none.
C2_Witness ==
    /\ pc = "summary" /\ sameAsPrev /\ ~dirty /\ ~prevHitQuota
    /\ total_added = 0 /\ Len(Records(log)) >= 1

\* C3: scrape_label calls append_raw at most TARGET_PER_LABEL times for a
\* label, and once the running total has reached TARGET_PER_LABEL it is
\* nowhere in the resolving, extracting or appending of an entry.
C3_QuotaBoundsLabel ==
    /\ writes <= TARGET_PER_LABEL
    /\ added <= TARGET_PER_LABEL
    /\ added >= TARGET_PER_LABEL
           => pc \notin {"dedup", "extract", "check", "append", "ledger"}

\* A label returned on its quota with entries of the feed left over.
C3_Witness ==
    /\ pc = "label_done" /\ added = TARGET_PER_LABEL
    /\ ei < Len(entries)

\* C4: with the quota of the label met, the next step of scrape_label is
\* its return: no feed is fetched and no entry is taken up.
C4_NoFetchAfterQuota ==
    [][(/\ added >= TARGET_PER_LABEL
        /\ pc \in {"query", "entry", "dedup", "extract", "check", "append",
                   "ledger", "sleep"})
          => \/ pc' = "idle"
             \/ /\ pc' = "label_done"
                /\ UNCHANGED <<feedOf, entries, ei, log, seen, added>>]_vars

\* A label returned on its quota with a query left whose feed was not
\* fetched.
C4_Witness ==
    /\ pc = "label_done" /\ added >= TARGET_PER_LABEL
    /\ qi < Len(Queries)
    /\ google_news_rss_url(Queries[qi + 1]) \notin DOMAIN feedOf

\* C5: the text of every record of the log, and of every row of the table,
\* has at least MIN_TEXT_LEN characters.
C5_MinTextLen ==
    /\ LET rs == Records(log)
       IN  \A i \in 1..Len(rs) : Len(Get(rs[i], "text")) >= MIN_TEXT_LEN
    /\ \A k \in 2..Len(csv) : Len(csv[k][8]) >= MIN_TEXT_LEN

\* The table holds a row whose text has exactly MIN_TEXT_LEN characters.
C5_Witness ==
    \E k \in 2..Len(csv) : Len(csv[k][8]) = MIN_TEXT_LEN

\* C6: when the extracted text and the fallback text are both too short,
\* the step of the process goes on to the next entry and leaves the log,
\* the table, the ledger, the totals and the pauses as they were.
C6_DiscardChangesNothing ==
    [][(/\ pc = "check" /\ pc' # "idle"
        /\ Len(extracted) < MIN_TEXT_LEN
        /\ Len(clean_text(title \o <<".", " ">> \o summary)) < MIN_TEXT_LEN)
          => (/\ pc' = "entry" /\ ei' = ei + 1
              /\ UNCHANGED <<log, csv, seen, added, total_added, sleeps,
                             writes>>)]_vars

\* An entry was discarded for its text after a record had been appended
\* for the label.
C6_Witness ==
    /\ pc = "entry" /\ last = "short"
    /\ added = 1 /\ sleeps = 1 /\ log # <<>>

\* The text that the claim C7 expects: the extracted text when it is long
\* enough, else the cleaned title and summary joined by ". ".
C7_Text ==
    IF Len(extracted) >= MIN_TEXT_LEN THEN extracted
    ELSE clean_text(clean_text(entries[ei].title) \o <<".", " ">>
             \o clean_text(Or(entries[ei].summary, entries[ei].description)))

\* C7: an entry that has reached the length check with an extracted or a
\* fallback text of MIN_TEXT_LEN characters goes on to be appended; the
\* append adds to the file exactly the record of the resolved URL (its id,
\* its host as source, the label, that text), nothing else writes the
\* file, and the ledger then gains exactly that id.
C7_OneRecordAppended ==
    [][/\ (pc = "check" /\ pc' # "idle" /\ Len(C7_Text) >= MIN_TEXT_LEN)
           => (pc' = "append" /\ text' = C7_Text)
       /\ (pc = "append" /\ pc' = "ledger")
           => log' = log \o dumps(
                  [id |-> stable_id(original), label |-> <<LABELS[li]>>,
                   source |-> netloc(original), url |-> original,
                   published_at |-> clean_text(entries[ei].published),
                   title |-> clean_text(entries[ei].title),
                   summary |-> clean_text(Or(entries[ei].summary,
                                             entries[ei].description)),
                   text |-> C7_Text, scraped_at |-> Now]) \o <<NL>>
       /\ (pc = "ledger" /\ pc' = "sleep")
           => (/\ stable_id(original) \notin seen
               /\ seen' = seen \cup {stable_id(original)}
               /\ log' = log)
       /\ (log' # log) => pc = "append"]_vars

\* A record with the fallback text was appended and its id entered the
\* ledger.
C7_Witness ==
    /\ pc = "sleep"
    /\ Len(extracted) < MIN_TEXT_LEN /\ Len(text) >= MIN_TEXT_LEN
    /\ netloc(original) = <<"other-publisher.org">>
    /\ stable_id(original) \in seen

\* C8, as stated: whatever terminations came before, a run is never about
\* to append an id the log holds, and a record it has appended is a
\* parsable line of the log.
C8_ResumesAfterKill ==
    /\ pc = "append" => stable_id(original) \notin load_seen_ids(log)
    /\ pc \in {"ledger", "sleep"} => stable_id(original) \in load_seen_ids(log)

\* C9: for the label being collected there are as many pauses as records
\* appended, but for the pause that is due: none is due while an entry is
\* fetched, skipped, resolved, extracted, checked or appended, and the one
\* due is taken after the append and the ledger update.
C9_PauseAfterEachRecord ==
    /\ pc \in {"query", "entry", "dedup", "extract", "check", "append",
               "label_done"}
           => (sleeps = added /\ writes = added)
    /\ pc = "ledger" => (sleeps = added /\ writes = added + 1)
    /\ pc = "sleep" => (/\ sleeps + 1 = added /\ writes = added
                        /\ stable_id(original) \in seen)

\* An entry was skipped for its id after a record had been appended and
\* one pause taken.
C9_Witness ==
    /\ pc = "entry" /\ last = "seen"
    /\ writes = 1 /\ sleeps = 1

\* The rows of the table.
RowsOf(t) == IF t = NoCsv THEN <<>> ELSE Tail(t)

\* C10, as stated: once rebuild_csv has run, by returning or by raising,
\* the table holds one row for each id of the log, that of its first
\* record, in log order.
C10_TableMatchesLog ==
    (pc = "summary" \/ (pc = "idle" /\ exit = "error"))
        => LET rs == Records(log)
           IN  RowsOf(csv) =
                   drop_duplicates(
                       [j \in 1..Len(rs) |->
                           [i \in 1..Len(COLS) |-> Cell(rs[j], COLS[i])]])

\* C11, as stated: load_seen_ids never fails, and the ledger a process
\* starts with is the set of the ids of the parsable lines of the log.
C11_LoadNeverFails ==
    /\ exit # "load_error"
    /\ (pc = "label" /\ li = 1)
           => LET ids == IdsOf(log)
              IN  seen = {ids[i] : i \in 1..Len(ids)}

\* Responses to try the resolver on, besides those of the links of the
\* feeds: pages without canonical link and without anchors, or with
\* anchors that are relative only.
Responses ==
    {Failed, PageOf(L1), PageOf(L2), PageOf(L3), Page(<<>>, <<>>),
     Page(<<>>, << <<"/", "about">>, <<"#">> >>)}

NoMatch(resp) ==
    resp.canon = <<>> /\ \A i \in 1..Len(resp.anchors) : ~Qualifies(resp.anchors[i])

\* C12: the resolver's call returns (the entry goes on to the ledger
\* check) with a non-empty URL, which is the link itself when the request
\* failed or the page has no canonical link and no qualifying anchor; and so
\* it is for every link and every response.
C12_ResolveNeverRaises ==
    [][(/\ pc = "entry" /\ ei <= Len(entries) /\ ~QuotaReached(added)
        /\ Link # <<>> /\ pc' # "idle")
          => /\ pc' = "dedup"
             /\ original' # <<>>
             /\ faults' # faults => original' = Link
             /\ (faults' = faults /\ NoMatch(PageOf(Link))) => original' = Link
             /\ \A url \in {L1, L2, L3, U1}, resp \in Responses :
                    LET r == resolve_google_news_to_original(url, resp)
                    IN  /\ r # <<>>
                        /\ (~resp.ok \/ NoMatch(resp)) => r = url]_vars

\* The request for a page that has a canonical link failed and the entry
\* went on with its own link.
C12_Witness ==
    /\ pc = "dedup" /\ PageOf(Link).canon # <<>>
    /\ original = Link

\* C13, as stated: an append that fails aborts its entry only: unless the
\* process is terminated from outside, the step that follows the start of
\* an append is the ledger update or the next entry, and no process ends
\* on the exception of an append.
C13_FailureAbortsEntryOnly ==
    [][(pc = "append" /\ exit' # "killed")
          => (pc' \in {"ledger", "entry"} /\ exit' # "append_error")]_vars

\* The place of a record's label in the catalog.
LabelIndex(rec) == CHOOSE i \in 1..Len(LABELS) : <<LABELS[i]>> = Get(rec, "label")

\* C14: two records of the log with the same id have the same label; an
\* append is never begun for an id that a record of the log has; and the
\* records of the running process carry labels that its catalog scan has
\* reached.
C14_OneLabelPerId ==
    LET rs == Records(log)
    IN  /\ \A i, j \in 1..Len(rs) :
               Get(rs[i], "id") = Get(rs[j], "id")
                   => Get(rs[i], "label") = Get(rs[j], "label")
        /\ pc = "append"
               => \A i \in 1..Len(rs) : Get(rs[i], "id") # stable_id(original)
        /\ pc \notin {"idle", "summary"}
               => \A i \in 1..Len(rs) :
                      Get(rs[i], "scraped_at") = Now => LabelIndex(rs[i]) <= li

\* An entry of the second label resolves to the URL of a record that this
\* run appended under the first label, and is about to be skipped.
C14_Witness ==
    /\ pc = "dedup" /\ li = 2 /\ stable_id(original) \in seen
    /\ LET rs == Records(log)
       IN  \E i \in 1..Len(rs) :
               /\ Get(rs[i], "id") = stable_id(original)
               /\ Get(rs[i], "label") = <<LABELS[1]>>
               /\ Get(rs[i], "scraped_at") = Now

\* C15, as stated: while a process runs, every id of the ledger is the id
\* of a parsable record of the log, and the ledger changes only in the step
\* that follows a completed append, by gaining the id of the record
\* appended.
C15_LedgerWithinLog ==
    [][/\ pc' # "idle"
           => LET ids == IdsOf(log')
              IN  seen' \subseteq {ids[i] : i \in 1..Len(ids)}
       /\ (pc # "idle" /\ pc' # "idle" /\ seen' # seen)
           => (/\ pc = "ledger" /\ log' = log
               /\ seen' = seen \cup {stable_id(original)})]_vars

\* Where scrape_label is inside the loop over the queries, and inside the
\* loop over the entries of a feed.
InQueries == {"query", "entry", "dedup", "extract", "check", "append", "ledger",
              "sleep"}
InEntries == InQueries \ {"query"}

\* C16: every step leaves what the log held as a prefix of what it holds;
\* a process goes through the catalog forward (labels, then the queries of
\* a label, then the entries of a feed) and an append writes the record of
\* the entry it is at; so the records of a process lie in the log in the
\* order of their labels.
C16_AppendOnly ==
    [][/\ Len(log') >= Len(log) /\ SubSeq(log', 1, Len(log)) = log
       /\ (pc # "idle" /\ pc' # "idle")
           => /\ li' >= li
              /\ (li' = li /\ pc \in InQueries /\ pc' \in InQueries) => qi' >= qi
              /\ (li' = li /\ qi' = qi /\ pc \in InEntries /\ pc' \in InEntries)
                     => ei' >= ei
       /\ (log' # log /\ pc' # "idle")
           => LET rs == Records(log')
                  new == SubSeq(log', Len(log) + 1, Len(log'))
              IN  /\ new[3] = Tok("label", <<LABELS[li]>>)
                  /\ new[7] = Tok("title", clean_text(entries[ei].title))
                  /\ \A i, j \in 1..Len(rs) :
                         (/\ i < j /\ Get(rs[i], "scraped_at") = Now
                          /\ Get(rs[j], "scraped_at") = Now)
                             => LabelIndex(rs[i]) <= LabelIndex(rs[j])]_vars

\* The log holds a record that this run appended under the first label
\* and, behind it, one that it has just appended under the second.
C16_Witness ==
    /\ pc = "ledger" /\ li = 2
    /\ LET rs == Records(log)
       IN  /\ Len(rs) >= 2
           /\ Get(rs[1], "label") = <<LABELS[1]>>
           /\ Get(rs[1], "scraped_at") = Now
           /\ Get(rs[Len(rs)], "label") = <<LABELS[2]>>

\* C17: an entry without link goes by with no request made; the stages
\* are entered in the order resolve, ledger check, extract, length check,
\* append; an entry whose id the ledger holds goes by with no extraction;
\* and an append is begun only for an id that the ledger lacks with a text
\* of at least MIN_TEXT_LEN characters.
C17_StageOrder ==
    [][/\ (/\ pc = "entry" /\ ei <= Len(entries) /\ ~QuotaReached(added)
           /\ Link = <<>> /\ pc' # "idle")
           => (/\ pc' = "entry" /\ ei' = ei + 1
               /\ original' = <<>> /\ extracted' = <<>>
               /\ UNCHANGED <<faults, log, seen>>)
       /\ pc' = "dedup" => (pc = "entry" /\ Link # <<>> /\ original' # <<>>)
       /\ (pc = "dedup" /\ pc' # "idle")
           => IF stable_id(original) \in seen
              THEN /\ pc' = "entry" /\ ei' = ei + 1
                   /\ extracted' = <<>>
                   /\ UNCHANGED <<faults, log, seen>>
              ELSE pc' = "extract"
       /\ pc' = "extract" => (pc = "dedup" /\ stable_id(original') \notin seen')
       /\ pc' = "check" => (pc = "extract" /\ stable_id(original') \notin seen')
       /\ pc' = "append"
           => (/\ pc = "check" /\ stable_id(original') \notin seen'
               /\ Len(text') >= MIN_TEXT_LEN)]_vars

\* An entry without link went by, and the entry behind it was resolved,
\* found new and extracted.
C17_Witness ==
    /\ pc = "check" /\ last = "no_link"
    /\ extracted # <<>> /\ stable_id(original) \notin seen

\* C18: a process that is inside scrape_label gets to its return, unless
\* it ends first; scrape_label returns with the quota met exactly or with
\* all the queries of the label used up; a query is left only when the
\* entries of its feed are used up, and an entry is left for the one behind
\* it; and the table is rebuilt only when scrape_label has returned for
\* every label.
C18_LabelTerminates ==
    /\ (pc \in InQueries) ~> (pc \in {"label_done", "idle"})
    /\ [](pc = "label_done"
             => (added = TARGET_PER_LABEL \/ (added < TARGET_PER_LABEL
                                                /\ qi = Len(Queries) + 1)))
    /\ [][/\ (pc = "entry" /\ pc' = "query")
               => (ei = Len(entries) + 1 /\ qi' = qi + 1)
          /\ (pc \in InEntries /\ pc' \in InEntries) => ei' \in {ei, ei + 1}
          /\ (pc = "query" /\ pc' = "entry") => ei' = 1
          /\ pc' = "summary" => (pc = "label" /\ li = Len(LABELS) + 1)
          /\ (pc = "label_done" /\ pc' # "idle") => li' = li + 1]_vars

\* scrape_label returns for the first label below the quota, its two
\* queries used up.
C18_Witness ==
    /\ pc = "label_done" /\ li = 1
    /\ added < TARGET_PER_LABEL /\ qi = Len(Queries) + 1

\* The first anchor href that is an absolute HTTP(S) URL of a host other
\* than the aggregator's, url when there is none.
FirstByHost(url, anchors) ==
    LET byHost(h) == /\ h # <<>> /\ h[1] \in {"http", "https"}
                     /\ netloc(h) # <<"news.google.com">>
        good == SelectSeq(anchors, byHost)
    IN  IF good # <<>> THEN good[1] ELSE url

\* C19, as stated: when the page of a link was fetched and has no
\* canonical link, the entry goes on with the first anchor href that is an
\* absolute HTTP(S) URL of another host than the aggregator's.
C19_FirstAnchorByHost ==
    [][(/\ pc = "entry" /\ pc' = "dedup" /\ faults' = faults
        /\ PageOf(Link).canon = <<>>)
          => original' = FirstByHost(Link, PageOf(Link).anchors)]_vars

====
